---- MODULE Spec2Model ----
(***************************************************************************)
(* Device inventory MVVM: the DeviceModel validators and search matching,  *)
(* and the useDevices view model (selection, search term, create / update  *)
(* / delete / refetch against the Apollo data-access client).              *)
(*                                                                         *)
(* Strings are sequences of one-character strings, so that trim,           *)
(* toLowerCase, includes and the two regular expressions are computed      *)
(* character by character as the JavaScript does.                          *)
(***************************************************************************)
EXTENDS Integers, Sequences, FiniteSets, TLC

\* ------------------------------------------------------------------------
\* Bounds
\* ------------------------------------------------------------------------

\* Number of asynchronous view-model calls (create/update/delete/refetch)
\* made in one behaviour.
MaxCalls == 1

\* Number of mutation calls made in one behaviour of the overlapping-calls
\* specification.
MaxConcurrent == 2

\* Longest run of letters in the names the validators are applied to.
MaxNameLen == 51

\* Longest segment of the generated serial numbers and firmware versions.
MaxPartLen == 5

\* Largest number of whole days between lastSeenAt and now.
MaxDays == 2

\* ------------------------------------------------------------------------
\* Values
\* ------------------------------------------------------------------------

\* JavaScript null / undefined.
Null == <<"null">>

Upper == <<"A","B","C","D","E","F","G","H","I","J","K","L","M",
           "N","O","P","Q","R","S","T","U","V","W","X","Y","Z">>

Lower == <<"a","b","c","d","e","f","g","h","i","j","k","l","m",
           "n","o","p","q","r","s","t","u","v","w","x","y","z">>

Digits == {"0","1","2","3","4","5","6","7","8","9"}

UpperSet == {Upper[i] : i \in 1..26}

\* The characters String.prototype.trim removes that occur in the model.
Whitespace == {" ", "\t", "\n"}

\* ------------------------------------------------------------------------
\* DeviceModel: string helpers and validators
\* ------------------------------------------------------------------------

\* String.prototype.toLowerCase, one character.
LowerChar(c) ==
  IF c \in UpperSet
    THEN Lower[CHOOSE i \in 1..26 : Upper[i] = c]
    ELSE c

\* String.prototype.toLowerCase.
toLowerCase(s) == [i \in 1..Len(s) |-> LowerChar(s[i])]

\* String.prototype.includes: t occurs in s as one contiguous substring.
includes(s, t) ==
  \E i \in 0..(Len(s) - Len(t)) : SubSeq(s, i + 1, i + Len(t)) = t

RECURSIVE TrimStart(_)
TrimStart(s) ==
  IF s # <<>> /\ Head(s) \in Whitespace THEN TrimStart(Tail(s)) ELSE s

RECURSIVE TrimEnd(_)
TrimEnd(s) ==
  IF s # <<>> /\ s[Len(s)] \in Whitespace
    THEN TrimEnd(SubSeq(s, 1, Len(s) - 1))
    ELSE s

\* String.prototype.trim.
trim(s) == TrimEnd(TrimStart(s))

\* Every character of s[from..to] is in class.
AllIn(s, from, to, class) == \A i \in from..to : s[i] \in class

\* The serial number pattern without its ^ and $ anchors.
isValidSerialNumberUnanchored(serialNumber) ==
  \E from \in 1..Len(serialNumber), a \in 2..4, b \in 3..4, c \in 1..4 :
    /\ Len(serialNumber) >= from + a + b + c + 1
    /\ AllIn(serialNumber, from, from + a - 1, UpperSet)
    /\ serialNumber[from + a] = "-"
    /\ AllIn(serialNumber, from + a + 1, from + a + b, Digits)
    /\ serialNumber[from + a + b + 1] = "-"
    /\ AllIn(serialNumber, from + a + b + 2, from + a + b + c + 1,
             UpperSet \cup Digits)

\* /^[A-Z]{2,4}-\d{3,4}-[A-Z0-9]{1,4}$/.test(serialNumber)
isValidSerialNumber(serialNumber) ==
  \E a \in 2..4, b \in 3..4, c \in 1..4 :
    /\ Len(serialNumber) = a + 1 + b + 1 + c
    /\ AllIn(serialNumber, 1, a, UpperSet)
    /\ serialNumber[a + 1] = "-"
    /\ AllIn(serialNumber, a + 2, a + 1 + b, Digits)
    /\ serialNumber[a + b + 2] = "-"
    /\ AllIn(serialNumber, a + b + 3, a + b + 2 + c, UpperSet \cup Digits)

\* The firmware version pattern with its dots unescaped: any character
\* separates the digit runs.
isValidFirmwareVersionAnyDot(version) ==
  \E a \in 1..Len(version), b \in 1..Len(version) :
    /\ a + b + 3 <= Len(version)
    /\ AllIn(version, 1, a, Digits)
    /\ AllIn(version, a + 2, a + 1 + b, Digits)
    /\ AllIn(version, a + b + 3, Len(version), Digits)

\* /^\d+\.\d+\.\d+$/.test(version)
isValidFirmwareVersion(version) ==
  \E a \in 1..Len(version), b \in 1..Len(version) :
    /\ a + b + 3 <= Len(version)
    /\ AllIn(version, 1, a, Digits)
    /\ version[a + 1] = "."
    /\ AllIn(version, a + 2, a + 1 + b, Digits)
    /\ version[a + b + 2] = "."
    /\ AllIn(version, a + b + 3, Len(version), Digits)

\* isValidName without the trim.
isValidNameUntrimmed(name) == Len(name) >= 3 /\ Len(name) <= 50

\* name.trim().length >= 3 && name.trim().length <= 50
isValidName(name) == Len(trim(name)) >= 3 /\ Len(trim(name)) <= 50

\* matchesSearch that looks at the name and the serial number only.
matchesSearchNameSerial(d, searchTerm) ==
  LET term == toLowerCase(searchTerm)
  IN \/ includes(toLowerCase(d.name), term)
     \/ includes(toLowerCase(d.serialNumber), term)

\* matchesSearch of a DeviceModel wrapping the Device d; the location getter
\* turns an empty or missing location into null, which never matches.
matchesSearch(d, searchTerm) ==
  LET term == toLowerCase(searchTerm)
      location == IF d.location = <<>> THEN Null ELSE d.location
  IN \/ includes(toLowerCase(d.name), term)
     \/ includes(toLowerCase(d.serialNumber), term)
     \/ (IF location = Null THEN FALSE
                            ELSE includes(toLowerCase(location), term))
     \/ includes(toLowerCase(d.type), term)

DigitChars == <<"0", "1", "2", "3", "4", "5", "6", "7", "8", "9">>

RECURSIVE NumberToString(_)
\* `${n}` of a non-negative integer n: its decimal digits.
NumberToString(n) ==
  IF n < 10 THEN <<DigitChars[n + 1]>>
  ELSE NumberToString(n \div 10) \o <<DigitChars[(n % 10) + 1]>>

\* The template with the s always appended.
AgoAlwaysPlural(n, unit) ==
  NumberToString(n) \o <<" ">> \o unit \o <<"s", " ", "a", "g", "o">>

\* `${n} ${unit}${n > 1 ? 's' : ''} ago`
Ago(n, unit) ==
  NumberToString(n) \o <<" ">> \o unit
    \o (IF n > 1 THEN <<"s">> ELSE <<>>) \o <<" ", "a", "g", "o">>

\* lastSeenFormatted of a DeviceModel whose lastSeenAt is present when seen
\* is true and lies diff milliseconds before new Date().
lastSeenFormatted(seen, diff) ==
  IF ~seen THEN <<"N", "e", "v", "e", "r">>
  ELSE LET minutes == diff \div 60000
           hours == minutes \div 60
           days == hours \div 24
       IN IF days > 0 THEN Ago(days, <<"d", "a", "y">>)
          ELSE IF hours > 0 THEN Ago(hours, <<"h", "o", "u", "r">>)
          ELSE IF minutes > 0
            THEN Ago(minutes, <<"m", "i", "n", "u", "t", "e">>)
          ELSE <<"J", "u", "s", "t", " ", "n", "o", "w">>

\* ------------------------------------------------------------------------
\* Data of the model: devices, inputs, errors
\* ------------------------------------------------------------------------

Sensor == <<"S","E","N","S","O","R">>
Gateway == <<"G","A","T","E","W","A","Y">>

SerialOk == <<"T","S","-","0","0","1","-","A">>
SerialBad == <<"T","S","0","0","1","A">>
FirmwareOk == <<"1",".","0",".","0">>
FirmwareBad == <<"1",".","0">>
NameOk == <<"H","u","b">>
NameShort == <<"a","b">>
NamePadded == <<" ","a","b"," "," ">>

Device1 ==
  [id |-> <<"1">>, name |-> <<"T","e","m","p"," ","1">>,
   serialNumber |-> SerialOk, type |-> Sensor,
   firmwareVersion |-> FirmwareOk, location |-> <<"L","a","b">>]

Device2 ==
  [id |-> <<"2">>, name |-> <<"G","a","t","e">>,
   serialNumber |-> <<"G","W","-","0","0","1","-","M","A","I","N">>,
   type |-> Gateway,
   firmwareVersion |-> <<"2",".","1",".","0">>, location |-> Null]

\* Arguments of selectDevice: string | null, the empty string included.
SelectIds == {Null, <<>>, <<"1">>, <<"2">>}

\* Arguments of setSearchTerm.
SearchTerms == {<<>>, <<"s","E","n">>}

CreateInput(name, serialNumber, firmwareVersion) ==
  [name |-> name, serialNumber |-> serialNumber, type |-> Sensor,
   firmwareVersion |-> firmwareVersion, location |-> Null]

CreateInputs ==
  { CreateInput(NameOk, SerialOk, FirmwareOk),
    CreateInput(NameShort, SerialOk, FirmwareOk),
    CreateInput(NameOk, SerialBad, FirmwareOk),
    CreateInput(NameOk, SerialOk, FirmwareBad),
    CreateInput(NameOk, SerialBad, FirmwareBad),
    CreateInput(NamePadded, SerialBad, FirmwareBad) }

\* UpdateDeviceInput: id is required, every other field may be omitted.
UpdateInputs ==
  { [id |-> <<"1">>],
    [id |-> <<"1">>, name |-> NameOk],
    [id |-> <<"1">>, name |-> NameShort],
    [id |-> <<"1">>, name |-> <<>>],
    [id |-> <<"1">>, firmwareVersion |-> <<"2",".","0",".","1">>],
    [id |-> <<"1">>, firmwareVersion |-> FirmwareBad],
    [id |-> <<"1">>, firmwareVersion |-> <<>>],
    [id |-> <<"1">>, name |-> NameShort, firmwareVersion |-> FirmwareBad] }

DeleteIds == {<<"1">>, <<"2">>}

\* input.f, undefined when the field is omitted.
Field(input, f) == IF f \in DOMAIN input THEN input[f] ELSE Null

\* JavaScript truthiness of a string | null | undefined.
Truthy(v) == v # Null /\ v # <<>>

NoError == [kind |-> "none", message |-> "none"]
NetworkError == [kind |-> "network", message |-> "Network error"]
GraphQLError == [kind |-> "graphql", message |-> "GraphQL error"]
ValidationError(message) == [kind |-> "validation", message |-> message]

NameMessage == "Device name must be between 3 and 50 characters"
SerialMessage == "Invalid serial number format (expected: XX-000-XXX)"
FirmwareMessage == "Invalid firmware version format (expected: X.Y.Z)"

\* What the link chain answers to one request.
Outcomes == {"ok", "network", "graphql"}

\* What it answers to a deleteDevice request: the mutation returns a
\* Boolean, so besides the three there is the answer without errors whose
\* data is { deleteDevice: false }, the server having removed nothing.
DeleteOutcomes == Outcomes \cup {"false"}

\* errorPolicy of the client the hook runs under: "none" is the Apollo
\* default (MockedProvider of the view-model tests), "all" the policy the
\* application's apolloClient configures.
ErrorPolicies == {"none", "all"}

\* ------------------------------------------------------------------------
\* useDevices: state
\* ------------------------------------------------------------------------

VARIABLES
  selectedDeviceId,  \* useState<string | null>(null)
  searchTerm,        \* useState('')
  data,              \* data?.devices || [] of useQuery(GetDevicesDocument)
  loading,           \* loading of useQuery
  error,             \* error of useQuery (NoError for undefined)
  creating,          \* loading of useMutation(CreateDeviceDocument)
  updating,          \* loading of useMutation(UpdateDeviceDocument)
  deleting,          \* loading of useMutation(DeleteDeviceDocument)
  mutationId,        \* per mutation hook, the id of its latest execution
  errorPolicy,       \* errorPolicy of the client's defaultOptions.mutate
  server,            \* the device list held by the GraphQL server
  fetching,          \* a list query issued by the client is in flight
  inflight,          \* view-model calls awaiting the collaborator
  ncalls,            \* number of asynchronous calls made so far
  last,              \* the call that settled most recently
  showForm,          \* DeviceTableView: useState(false)
  editingDevice,     \* DeviceTableView: useState<DeviceModel | null>(null),
                     \* <<>> for null and <<d>> for the device d
  deviceToDelete,    \* DeviceTableView: useState<string | null>(null)
  errors,            \* DeviceForm: useState<Record<string, string>>({}),
                     \* a set of <<field, message>>
  subject,           \* arguments of a DeviceModel function: a string s
                     \* and the Device d the DeviceModel wraps
  verdict            \* the function applied to subject, and its result

vars ==
  <<selectedDeviceId, searchTerm, data, loading, error, creating, updating,
    deleting, mutationId, errorPolicy, server, fetching, inflight, ncalls,
    last, showForm, editingDevice, deviceToDelete, errors, subject,
    verdict>>

\* The state of useDevices and of the collaborator behind it.
vm ==
  <<selectedDeviceId, searchTerm, data, loading, error, creating, updating,
    deleting, mutationId, errorPolicy, server, fetching, inflight, ncalls,
    last>>

\* The state of DeviceTableView and of the DeviceForm it mounts.
view == <<showForm, editingDevice, deviceToDelete, errors>>

\* A DeviceModel function under evaluation.
evaluation == <<subject, verdict>>

\* Everything outside the view model.
outside == <<view, evaluation>>

\* ------------------------------------------------------------------------
\* useDevices: derived values
\* ------------------------------------------------------------------------

\* (data?.devices || []).map(device => new DeviceModel(device))
devices == data

\* selectedDevice taken to be the first device whenever something is selected.
SelectedDeviceFirst(sel, devs) ==
  IF Truthy(sel) /\ devs # <<>> THEN <<devs[1]>> ELSE <<>>

\* selectedDeviceId ? devices.find(d => d.id === selectedDeviceId) || null
\*                  : null            (<<>> for null, <<d>> for the device d)
SelectedDeviceOf(sel, devs) ==
  IF Truthy(sel) /\ \E i \in 1..Len(devs) : devs[i].id = sel
    THEN LET first == CHOOSE i \in 1..Len(devs) :
                        /\ devs[i].id = sel
                        /\ \A j \in 1..(i - 1) : devs[j].id # sel
         IN <<devs[first]>>
    ELSE <<>>

selectedDevice == SelectedDeviceOf(selectedDeviceId, devices)

\* filteredDevices that ignores the search term.
FilteredDevicesUnfiltered(term, devs) == devs

\* searchTerm ? devices.filter(d => d.matchesSearch(searchTerm)) : devices
FilteredDevicesOf(term, devs) ==
  IF term # <<>>
    THEN SelectSeq(devs, LAMBDA d : matchesSearch(d, term))
    ELSE devs

filteredDevices == FilteredDevicesOf(searchTerm, devices)

\* ------------------------------------------------------------------------
\* useDevices: guards of the mutations
\* ------------------------------------------------------------------------

\* createDevice with its three checks in the opposite order.
CreateValidationLastFirst(input) ==
  IF ~isValidFirmwareVersion(input.firmwareVersion)
    THEN <<FirmwareMessage>>
  ELSE IF ~isValidSerialNumber(input.serialNumber) THEN <<SerialMessage>>
  ELSE IF ~isValidName(input.name) THEN <<NameMessage>>
  ELSE Null

\* createDevice without the serial number check.
CreateValidationNoSerial(input) ==
  IF ~isValidName(input.name) THEN <<NameMessage>>
  ELSE IF ~isValidFirmwareVersion(input.firmwareVersion)
    THEN <<FirmwareMessage>>
  ELSE Null

\* The message createDevice throws before the mutation, Null when it passes.
CreateValidation(input) ==
  IF ~isValidName(input.name) THEN <<NameMessage>>
  ELSE IF ~isValidSerialNumber(input.serialNumber) THEN <<SerialMessage>>
  ELSE IF ~isValidFirmwareVersion(input.firmwareVersion)
    THEN <<FirmwareMessage>>
  ELSE Null

\* The message updateDevice throws before the mutation, Null when it passes:
\* input.name && !isValidName(input.name), then the same for the firmware.
UpdateValidation(input) ==
  IF Truthy(Field(input, "name")) /\ ~isValidName(input.name)
    THEN <<NameMessage>>
  ELSE IF Truthy(Field(input, "firmwareVersion"))
          /\ ~isValidFirmwareVersion(input.firmwareVersion)
    THEN <<FirmwareMessage>>
  ELSE Null

\* deleteDevice that never clears the selection.
ClearsSelectionNever(closureSelectedDeviceId, deviceId) == FALSE

\* if (selectedDeviceId === deviceId), with the selectedDeviceId the
\* deleteDevice callback closed over when it was called.
ClearsSelection(closureSelectedDeviceId, deviceId) ==
  closureSelectedDeviceId = deviceId

\* The promise of a mutate call rejects: always on a transport failure, on
\* GraphQL errors only under errorPolicy "none".
MutationRejects(outcome, policy) ==
  \/ outcome = "network"
  \/ outcome = "graphql" /\ policy = "none"

\* The promise of refetch() rejects; useQuery is given errorPolicy 'all', so
\* GraphQL errors come back inside a resolved result.
QueryErrorPolicy == "all"

RefetchRejects(outcome) ==
  \/ outcome = "network"
  \/ outcome = "graphql" /\ QueryErrorPolicy = "none"

\* The error a failed request carries.
ErrorOf(outcome) ==
  IF outcome = "network" THEN NetworkError
  ELSE IF outcome = "graphql" THEN GraphQLError
  ELSE NoError

\* An update callback that evicts nothing.
EvictNothing(devs, deviceId) == devs

\* cache.evict({ id: `Device:${deviceId}` }); cache.gc()
Evict(devs, deviceId) == SelectSeq(devs, LAMBDA d : d.id # deviceId)

\* ------------------------------------------------------------------------
\* The GraphQL server behind the collaborator
\* ------------------------------------------------------------------------

ServerCreate(list, input, id) ==
  Append(list,
         [id |-> id, name |-> input.name,
          serialNumber |-> input.serialNumber, type |-> input.type,
          firmwareVersion |-> input.firmwareVersion,
          location |-> input.location])

ServerUpdate(list, input) ==
  [i \in 1..Len(list) |->
     IF list[i].id = input.id
       THEN [f \in DOMAIN list[i] |->
               IF f \in DOMAIN input THEN input[f] ELSE list[i][f]]
       ELSE list[i]]

ServerDelete(list, id) == SelectSeq(list, LAMBDA d : d.id # id)

\* ------------------------------------------------------------------------
\* Initial state: the hook has rendered once and the list query is in flight
\* ------------------------------------------------------------------------

\* The variables of a request that has none.
NoVariables == [query |-> "GetDevices"]

NoCall ==
  [cid |-> 0, op |-> "none", input |-> NoVariables, closure |-> Null,
   result |-> "none", outcome |-> "none", error |-> NoError]

HookInit ==
  /\ selectedDeviceId = Null
  /\ searchTerm = <<>>
  /\ data = <<>>
  /\ loading = TRUE
  /\ error = NoError
  /\ creating = FALSE
  /\ updating = FALSE
  /\ deleting = FALSE
  /\ mutationId = [createDevice |-> 0, updateDevice |-> 0, deleteDevice |-> 0]
  /\ errorPolicy \in ErrorPolicies
  /\ server = <<Device1, Device2>>
  /\ fetching = TRUE
  /\ inflight = <<>>
  /\ ncalls = 0
  /\ last = NoCall
  /\ showForm = FALSE
  /\ editingDevice = <<>>
  /\ deviceToDelete = Null
  /\ errors = {}

NoSubject == [s |-> <<>>, d |-> Device1, seen |-> FALSE, elapsed |-> 0]

NoVerdict == [fn |-> "none", value |-> FALSE, text |-> <<>>]

Init ==
  /\ HookInit
  /\ subject = NoSubject
  /\ verdict = NoVerdict

\* A call of the view model: its number, operation, the variables of its
\* request (input of create and update, { id } of delete), the id of its
\* execution and, for deleteDevice (the one callback whose dependencies
\* include selectedDeviceId), the selectedDeviceId it closed over.
Call(op, input, mid) ==
  [cid |-> ncalls + 1, op |-> op, input |-> input,
   closure |-> IF op = "deleteDevice" THEN selectedDeviceId ELSE Null,
   mid |-> mid]

\* The settled call c as recorded in last.
Settled(c, result, outcome, err) ==
  [cid |-> c.cid, op |-> c.op, input |-> c.input, closure |-> c.closure,
   result |-> result, outcome |-> outcome, error |-> err]

\* ------------------------------------------------------------------------
\* Synchronous operations
\* ------------------------------------------------------------------------

\* selectDevice(deviceId): setSelectedDeviceId(deviceId)
SelectDevice(deviceId) ==
  /\ selectedDeviceId' = deviceId
  /\ UNCHANGED <<searchTerm, data, loading, error, creating, updating,
                 deleting, mutationId, errorPolicy, server, fetching,
                 inflight, ncalls, last>>

\* A setSearchTerm that trims its argument.
SetSearchTermTrimmed(term) ==
  /\ searchTerm' = trim(term)
  /\ UNCHANGED <<selectedDeviceId, data, loading, error, creating, updating,
                 deleting, mutationId, errorPolicy, server, fetching,
                 inflight, ncalls, last>>

\* setSearchTerm(term), the state setter itself
SetSearchTerm(term) ==
  /\ searchTerm' = term
  /\ UNCHANGED <<selectedDeviceId, data, loading, error, creating, updating,
                 deleting, mutationId, errorPolicy, server, fetching,
                 inflight, ncalls, last>>

\* ------------------------------------------------------------------------
\* Asynchronous operations, up to the await
\* ------------------------------------------------------------------------

\* createDevice(input): validate, then createDeviceMutation({variables})
CreateDevice(input) ==
  /\ ncalls' = ncalls + 1
  /\ LET message == CreateValidation(input)
         call == Call("createDevice", input, mutationId.createDevice + 1)
     IN IF message # Null
          THEN /\ last' = Settled(call, "rejected", "none",
                                  ValidationError(message[1]))
               /\ UNCHANGED <<creating, mutationId, inflight>>
          ELSE /\ creating' = TRUE
               /\ mutationId' = [mutationId EXCEPT !.createDevice = @ + 1]
               /\ inflight' = Append(inflight, call)
               /\ UNCHANGED last
  /\ UNCHANGED <<selectedDeviceId, searchTerm, data, loading, error,
                 updating, deleting, errorPolicy, server, fetching>>

\* updateDevice(input): validate, then updateDeviceMutation({variables})
UpdateDevice(input) ==
  /\ ncalls' = ncalls + 1
  /\ LET message == UpdateValidation(input)
         call == Call("updateDevice", input, mutationId.updateDevice + 1)
     IN IF message # Null
          THEN /\ last' = Settled(call, "rejected", "none",
                                  ValidationError(message[1]))
               /\ UNCHANGED <<updating, mutationId, inflight>>
          ELSE /\ updating' = TRUE
               /\ mutationId' = [mutationId EXCEPT !.updateDevice = @ + 1]
               /\ inflight' = Append(inflight, call)
               /\ UNCHANGED last
  /\ UNCHANGED <<selectedDeviceId, searchTerm, data, loading, error,
                 creating, deleting, errorPolicy, server, fetching>>

\* deleteDevice(deviceId): deleteDeviceMutation({variables: {id}})
DeleteDevice(deviceId) ==
  /\ ncalls' = ncalls + 1
  /\ deleting' = TRUE
  /\ mutationId' = [mutationId EXCEPT !.deleteDevice = @ + 1]
  /\ inflight' = Append(inflight, Call("deleteDevice", [id |-> deviceId],
                                        mutationId.deleteDevice + 1))
  /\ UNCHANGED <<selectedDeviceId, searchTerm, data, loading, error,
                 creating, updating, errorPolicy, server, fetching, last>>

\* refetch: handleRefetch, await refetch()
Refetch ==
  /\ ncalls' = ncalls + 1
  /\ inflight' = Append(inflight, Call("refetch", NoVariables, 0))
  /\ UNCHANGED <<selectedDeviceId, searchTerm, data, loading, error,
                 creating, updating, deleting, mutationId, errorPolicy,
                 server, fetching, last>>

\* ------------------------------------------------------------------------
\* Asynchronous operations, from the collaborator's answer on
\* ------------------------------------------------------------------------

\* The answered request issued again behind the pending ones.
WithoutReissued(calls, i) ==
  [j \in 1..Len(calls) |->
     IF j < i THEN calls[j]
     ELSE IF j < Len(calls) THEN calls[j + 1]
     ELSE calls[i]]

\* The pending calls without the i-th.
Without(calls, i) ==
  [j \in 1..(Len(calls) - 1) |-> IF j < i THEN calls[j] ELSE calls[j + 1]]

\* loading that goes back to false on the answer to any execution.
LoadingAfterAny(flag, c) == FALSE

\* loading of a useMutation hook goes back to false when the answer to its
\* latest execution arrives.
LoadingAfter(flag, c) == IF c.mid = mutationId[c.op] THEN FALSE ELSE flag

\* createDeviceMutation settles: the catch block logs and rethrows; a
\* resolved mutation queues refetchQueries: [{ query: GetDevicesDocument }].
CreateDeviceSettles(i, outcome) ==
  /\ inflight[i].op = "createDevice"
  /\ inflight' = Without(inflight, i)
  /\ creating' = LoadingAfter(creating, inflight[i])
  /\ IF MutationRejects(outcome, errorPolicy)
       THEN /\ last' = Settled(inflight[i], "rejected", outcome,
                                ErrorOf(outcome))
            /\ UNCHANGED <<server, fetching>>
       ELSE /\ last' = Settled(inflight[i], "resolved", outcome, NoError)
            /\ server' = IF outcome = "ok"
                           THEN ServerCreate(server, inflight[i].input,
                                             <<ToString(inflight[i].cid + 2)>>)
                           ELSE server
            /\ fetching' = TRUE
  /\ UNCHANGED <<selectedDeviceId, searchTerm, data, loading, error,
                 updating, deleting, mutationId, errorPolicy, ncalls>>

\* updateDeviceMutation settles
UpdateDeviceSettles(i, outcome) ==
  /\ inflight[i].op = "updateDevice"
  /\ inflight' = Without(inflight, i)
  /\ updating' = LoadingAfter(updating, inflight[i])
  /\ IF MutationRejects(outcome, errorPolicy)
       THEN /\ last' = Settled(inflight[i], "rejected", outcome,
                                ErrorOf(outcome))
            /\ UNCHANGED <<server, fetching>>
       ELSE /\ last' = Settled(inflight[i], "resolved", outcome, NoError)
            /\ server' = IF outcome = "ok"
                           THEN ServerUpdate(server, inflight[i].input)
                           ELSE server
            /\ fetching' = TRUE
  /\ UNCHANGED <<selectedDeviceId, searchTerm, data, loading, error,
                 creating, deleting, mutationId, errorPolicy, ncalls>>

\* deleteDeviceMutation settles: a resolved mutation has run the update
\* callback (evict, gc) and queued the refetch; then the selection is cleared
\* when the closure's selectedDeviceId is the deleted id.
DeleteDeviceSettles(i, outcome) ==
  /\ inflight[i].op = "deleteDevice"
  /\ inflight' = Without(inflight, i)
  /\ deleting' = LoadingAfter(deleting, inflight[i])
  /\ IF MutationRejects(outcome, errorPolicy)
       THEN /\ last' = Settled(inflight[i], "rejected", outcome,
                                ErrorOf(outcome))
            /\ UNCHANGED <<server, fetching, data, selectedDeviceId>>
       ELSE /\ last' = Settled(inflight[i], "resolved", outcome, NoError)
            /\ server' = IF outcome = "ok"
                           THEN ServerDelete(server, inflight[i].input.id)
                           ELSE server
            /\ data' = Evict(data, inflight[i].input.id)
            /\ fetching' = TRUE
            /\ selectedDeviceId' =
                 IF ClearsSelection(inflight[i].closure,
                                    inflight[i].input.id)
                   THEN Null
                   ELSE selectedDeviceId
  /\ UNCHANGED <<searchTerm, loading, error, creating, updating, mutationId,
                 errorPolicy, ncalls>>

\* What a list answer leaves in data and error: the server's list, the
\* previous data with a network error, or (errorPolicy 'all') the GraphQL
\* errors next to whatever part of the list came with them.
ListAnswer(outcome, partial) ==
  IF outcome = "ok" THEN <<server, NoError>>
  ELSE IF outcome = "network" THEN <<data, NetworkError>>
  ELSE <<partial, GraphQLError>>

\* refetch() settles: the catch block logs and rethrows.
RefetchSettles(i, outcome, partial) ==
  /\ inflight[i].op = "refetch"
  /\ inflight' = Without(inflight, i)
  /\ data' = ListAnswer(outcome, partial)[1]
  /\ error' = ListAnswer(outcome, partial)[2]
  /\ last' = IF RefetchRejects(outcome)
               THEN Settled(inflight[i], "rejected", outcome, ErrorOf(outcome))
               ELSE Settled(inflight[i], "resolved", outcome, NoError)
  /\ UNCHANGED <<selectedDeviceId, searchTerm, loading, creating, updating,
                 deleting, mutationId, errorPolicy, server, fetching,
                 ncalls>>

\* The list query the client issued itself (the first fetch of useQuery, or
\* refetchQueries of a mutation) is answered.
QueryResponse(outcome, partial) ==
  /\ fetching
  /\ fetching' = FALSE
  /\ loading' = FALSE
  /\ data' = ListAnswer(outcome, partial)[1]
  /\ error' = ListAnswer(outcome, partial)[2]
  /\ UNCHANGED <<selectedDeviceId, searchTerm, creating, updating, deleting,
                 mutationId, errorPolicy, server, inflight, ncalls, last>>

\* The part of the list a GraphQL-error answer may still carry.
Partials == {<<>>, server}

\* The view model driven directly, as by renderHook: the view stays as
\* constructed.
Next ==
  \/ \E deviceId \in SelectIds : SelectDevice(deviceId) /\ UNCHANGED outside
  \/ \E term \in SearchTerms : SetSearchTerm(term) /\ UNCHANGED outside
  \/ \E input \in CreateInputs :
       ncalls < MaxCalls /\ CreateDevice(input) /\ UNCHANGED outside
  \/ \E input \in UpdateInputs :
       ncalls < MaxCalls /\ UpdateDevice(input) /\ UNCHANGED outside
  \/ \E deviceId \in DeleteIds :
       ncalls < MaxCalls /\ DeleteDevice(deviceId) /\ UNCHANGED outside
  \/ ncalls < MaxCalls /\ Refetch /\ UNCHANGED outside
  \/ \E i \in DOMAIN inflight, outcome \in Outcomes :
       CreateDeviceSettles(i, outcome) /\ UNCHANGED outside
  \/ \E i \in DOMAIN inflight, outcome \in Outcomes :
       UpdateDeviceSettles(i, outcome) /\ UNCHANGED outside
  \/ \E i \in DOMAIN inflight, outcome \in DeleteOutcomes :
       DeleteDeviceSettles(i, outcome) /\ UNCHANGED outside
  \/ \E i \in DOMAIN inflight, outcome \in Outcomes, partial \in Partials :
       RefetchSettles(i, outcome, partial) /\ UNCHANGED outside
  \/ \E outcome \in Outcomes, partial \in Partials :
       QueryResponse(outcome, partial) /\ UNCHANGED outside

Spec == Init /\ [][Next]_vars

\* ------------------------------------------------------------------------
\* Overlapping mutation calls: the hook's three mutations called again while
\* earlier calls are in flight, every request eventually answered
\* ------------------------------------------------------------------------

ConcurrentCreateInputs ==
  { CreateInput(NameOk, SerialOk, FirmwareOk),
    CreateInput(NameShort, SerialOk, FirmwareOk) }

ConcurrentUpdateInputs == { [id |-> <<"1">>, name |-> NameOk] }

ConcurrentDeleteIds == { <<"1">> }

ConcurrentNext ==
  \/ \E input \in ConcurrentCreateInputs :
       ncalls < MaxConcurrent /\ CreateDevice(input) /\ UNCHANGED outside
  \/ \E input \in ConcurrentUpdateInputs :
       ncalls < MaxConcurrent /\ UpdateDevice(input) /\ UNCHANGED outside
  \/ \E deviceId \in ConcurrentDeleteIds :
       ncalls < MaxConcurrent /\ DeleteDevice(deviceId) /\ UNCHANGED outside
  \/ \E i \in DOMAIN inflight, outcome \in Outcomes :
       CreateDeviceSettles(i, outcome) /\ UNCHANGED outside
  \/ \E i \in DOMAIN inflight, outcome \in Outcomes :
       UpdateDeviceSettles(i, outcome) /\ UNCHANGED outside
  \/ \E i \in DOMAIN inflight, outcome \in DeleteOutcomes :
       DeleteDeviceSettles(i, outcome) /\ UNCHANGED outside
  \/ \E outcome \in Outcomes, partial \in Partials :
       QueryResponse(outcome, partial) /\ UNCHANGED outside

\* The collaborator answers some pending mutation.
MutationSettles ==
  \E i \in DOMAIN inflight, outcome \in DeleteOutcomes :
    \/ /\ outcome \in Outcomes
       /\ CreateDeviceSettles(i, outcome)
       /\ UNCHANGED outside
    \/ /\ outcome \in Outcomes
       /\ UpdateDeviceSettles(i, outcome)
       /\ UNCHANGED outside
    \/ DeleteDeviceSettles(i, outcome) /\ UNCHANGED outside

\* The collaborator answers the list query.
ListSettles ==
  \E outcome \in Outcomes, partial \in Partials :
    QueryResponse(outcome, partial) /\ UNCHANGED outside

\* Every request handed to the collaborator is eventually answered.
ConcurrentSpec ==
  /\ Init
  /\ [][ConcurrentNext]_vars
  /\ WF_vars(MutationSettles)
  /\ WF_vars(ListSettles)

\* ------------------------------------------------------------------------
\* DeviceTableView with DeviceForm, DeviceTable and DeleteConfirmModal
\* ------------------------------------------------------------------------

Online == <<"O","N","L","I","N","E">>

\* formData of DeviceForm as the user left it at a submit.
FormData(name, serialNumber, firmwareVersion, location) ==
  [name |-> name, serialNumber |-> serialNumber, type |-> Sensor,
   status |-> Online, firmwareVersion |-> firmwareVersion,
   location |-> location]

FormDatas ==
  { FormData(NameOk, SerialOk, FirmwareOk, <<>>),
    FormData(NameOk, SerialBad, FirmwareOk, <<>>),
    FormData(NamePadded, SerialBad, FirmwareBad, <<>>) }

NameFormMessage == "Name must be between 3 and 50 characters"
SerialFormMessage == "Format: XX-000-XXX (e.g., TS-001-A)"
FirmwareFormMessage == "Format: X.Y.Z (e.g., 1.0.0)"

\* validateForm that checks the serial number only.
ValidateFormSerialOnly(formData, device) ==
  IF device = <<>> /\ ~isValidSerialNumber(formData.serialNumber)
    THEN {<<"serialNumber", SerialFormMessage>>}
  ELSE {}

\* validateForm that stops at the first failing field.
ValidateFormFirstOnly(formData, device) ==
  IF ~isValidName(formData.name) THEN {<<"name", NameFormMessage>>}
  ELSE IF device = <<>> /\ ~isValidSerialNumber(formData.serialNumber)
    THEN {<<"serialNumber", SerialFormMessage>>}
  ELSE IF ~isValidFirmwareVersion(formData.firmwareVersion)
    THEN {<<"firmwareVersion", FirmwareFormMessage>>}
  ELSE {}

\* validateForm: newErrors; the serial number is checked in create mode only.
ValidateForm(formData, device) ==
  (IF ~isValidName(formData.name)
     THEN {<<"name", NameFormMessage>>} ELSE {})
  \cup
  (IF device = <<>> /\ ~isValidSerialNumber(formData.serialNumber)
     THEN {<<"serialNumber", SerialFormMessage>>} ELSE {})
  \cup
  (IF ~isValidFirmwareVersion(formData.firmwareVersion)
     THEN {<<"firmwareVersion", FirmwareFormMessage>>} ELSE {})

\* formData.location || null
LocationOrNull(location) == IF location = <<>> THEN Null ELSE location

\* createData of handleSubmit
CreateData(formData) ==
  [name |-> formData.name, serialNumber |-> formData.serialNumber,
   type |-> formData.type, firmwareVersion |-> formData.firmwareVersion,
   location |-> LocationOrNull(formData.location)]

\* updateData built by spreading formData.
UpdateDataSpread(device, formData) ==
  [id |-> device.id, name |-> formData.name,
   serialNumber |-> formData.serialNumber, type |-> formData.type,
   status |-> formData.status, firmwareVersion |-> formData.firmwareVersion,
   location |-> LocationOrNull(formData.location)]

\* updateData of handleSubmit
UpdateData(device, formData) ==
  [id |-> device.id, name |-> formData.name, status |-> formData.status,
   firmwareVersion |-> formData.firmwareVersion,
   location |-> LocationOrNull(formData.location)]

\* DeviceTableView renders the table, the form and the modal only past its
\* two early returns (LoadingState, ErrorState).
LoadingRendered == loading /\ Len(devices) = 0

ErrorRendered == ~LoadingRendered /\ error # NoError /\ Len(devices) = 0

MainRendered == ~LoadingRendered /\ ~ErrorRendered

\* {showForm && <DeviceForm ... />}
FormMounted == MainRendered /\ showForm

\* {deviceToDelete && <DeleteConfirmModal ... />}
ModalMounted == MainRendered /\ Truthy(deviceToDelete)

\* The errors state of DeviceForm after a step that leaves e in it: the
\* state is lost when the form is unmounted.
ErrorsKept(e) == IF FormMounted' THEN e ELSE {}

\* A step of the view model under DeviceTableView that runs no code of the
\* view.
ViewKeeps ==
  /\ UNCHANGED <<showForm, editingDevice, deviceToDelete>>
  /\ errors' = ErrorsKept(errors)

\* handleCreate: the Add Device button
HandleCreate ==
  /\ MainRendered
  /\ editingDevice' = <<>>
  /\ showForm' = TRUE
  /\ UNCHANGED <<vm, deviceToDelete>>
  /\ errors' = ErrorsKept(errors)

\* handleEdit(device): the Edit button of a table row
HandleEdit(device) ==
  /\ MainRendered
  /\ editingDevice' = <<device>>
  /\ showForm' = TRUE
  /\ UNCHANGED <<vm, deviceToDelete>>
  /\ errors' = ErrorsKept(errors)

\* onCancel of DeviceForm: the Cancel button, disabled={isSubmitting}
FormCancel ==
  /\ FormMounted
  /\ ~(creating \/ updating)
  /\ showForm' = FALSE
  /\ editingDevice' = <<>>
  /\ errors' = {}
  /\ UNCHANGED <<vm, deviceToDelete>>

\* handleFormSubmit that closes the form whatever the outcome.
HandleFormSubmitClosesAlways(rejected) == TRUE

\* handleFormSubmit: setShowForm(false); setEditingDevice(null) follow the
\* awaited createDevice / updateDevice inside the try block.
HandleFormSubmitCloses(rejected) == ~rejected

\* handleFormSubmit catches and logs: the promise onSubmit returns never
\* rejects.
OnSubmitRejects(rejected) == FALSE

\* DeviceForm.handleSubmit: onCancel() follows the awaited onSubmit inside
\* the try block.
HandleSubmitCallsOnCancel(onSubmitRejected) == ~onSubmitRejected

\* What the continuations of handleFormSubmit and of DeviceForm.handleSubmit
\* leave in the view once createDevice / updateDevice has settled.
FormSettled(rejected) ==
  LET closes == \/ HandleFormSubmitCloses(rejected)
                \/ HandleSubmitCallsOnCancel(OnSubmitRejects(rejected))
  IN /\ showForm' = IF closes THEN FALSE ELSE showForm
     /\ editingDevice' = IF closes THEN <<>> ELSE editingDevice
     /\ errors' = IF closes THEN {} ELSE ErrorsKept(errors)
     /\ UNCHANGED deviceToDelete

\* DeviceForm.handleSubmit up to the await: validateForm, then onSubmit with
\* updateData (edit mode) or createData, which handleFormSubmit hands to
\* updateDevice or createDevice; the submit button is disabled={isSubmitting}.
FormSubmit(formData) ==
  /\ FormMounted
  /\ ~(creating \/ updating)
  /\ IF ValidateForm(formData, editingDevice) # {}
       THEN /\ errors' = ValidateForm(formData, editingDevice)
            /\ UNCHANGED <<vm, showForm, editingDevice, deviceToDelete>>
       ELSE /\ IF editingDevice # <<>>
                 THEN UpdateDevice(UpdateData(editingDevice[1], formData))
                 ELSE CreateDevice(CreateData(formData))
            /\ IF last'.cid = ncalls'
                 THEN FormSettled(TRUE)
                 ELSE /\ UNCHANGED <<showForm, editingDevice, deviceToDelete>>
                      /\ errors' = {}

\* createDevice / updateDevice called by handleFormSubmit settles, and the
\* two continuations run.
FormSubmitSettles(i, outcome) ==
  /\ \/ CreateDeviceSettles(i, outcome)
     \/ UpdateDeviceSettles(i, outcome)
  /\ FormSettled(last'.result = "rejected")

\* onDeleteDevice={setDeviceToDelete}: the Delete button of a table row
SetDeviceToDelete(deviceId) ==
  /\ MainRendered
  /\ deviceToDelete' = deviceId
  /\ UNCHANGED <<vm, showForm, editingDevice>>
  /\ errors' = ErrorsKept(errors)

\* Modal buttons that are never disabled.
ModalButtonsEnabledAlways(isDeleting) == FALSE

\* disabled={isDeleting} of both buttons of DeleteConfirmModal: a click on a
\* disabled button runs no handler.
ModalButtonsDisabled(isDeleting) == isDeleting

\* onCancel of DeleteConfirmModal: the Cancel button, disabled={isDeleting}
ModalCancel ==
  /\ ModalMounted
  /\ ~ModalButtonsDisabled(deleting)
  /\ deviceToDelete' = Null
  /\ UNCHANGED <<vm, showForm, editingDevice>>
  /\ errors' = ErrorsKept(errors)

\* onConfirm of DeleteConfirmModal: handleDelete(deviceToDelete) up to the
\* await; the Delete button is disabled={isDeleting}.
HandleDelete ==
  /\ ModalMounted
  /\ ~ModalButtonsDisabled(deleting)
  /\ DeleteDevice(deviceToDelete)
  /\ ViewKeeps

\* handleDelete that keeps the modal open when deleteDevice rejects.
DeviceToDeleteKeptOnError(rejected, current) ==
  IF rejected THEN current ELSE Null

\* handleDelete after the await: setDeviceToDelete(null) in the try block
\* and in the catch block.
DeviceToDeleteAfter(rejected, current) ==
  IF rejected THEN Null ELSE Null

\* deleteDevice called by handleDelete settles.
HandleDeleteSettles(i, outcome) ==
  /\ DeleteDeviceSettles(i, outcome)
  /\ deviceToDelete' =
       DeviceToDeleteAfter(last'.result = "rejected", deviceToDelete)
  /\ UNCHANGED <<showForm, editingDevice>>
  /\ errors' = ErrorsKept(errors)

\* The rows of DeviceTable.
Rows == {filteredDevices[j] : j \in DOMAIN filteredDevices}

\* The form, the table's Edit and Delete buttons, the modal and the retry
\* button. The view offers no way to change searchTerm: it reads
\* setSearchInput, which useDevices does not return. Row selection leaves
\* the view's own state alone and is exercised by Next.
ViewNext ==
  \/ HandleCreate /\ UNCHANGED evaluation
  \/ \E device \in Rows : HandleEdit(device) /\ UNCHANGED evaluation
  \/ FormCancel /\ UNCHANGED evaluation
  \/ \E formData \in FormDatas :
       /\ ValidateForm(formData, editingDevice) = {} => ncalls < MaxCalls
       /\ FormSubmit(formData)
       /\ UNCHANGED evaluation
  \/ \E i \in DOMAIN inflight, outcome \in Outcomes :
       FormSubmitSettles(i, outcome) /\ UNCHANGED evaluation
  \/ \E device \in Rows :
       SetDeviceToDelete(device.id) /\ UNCHANGED evaluation
  \/ ModalCancel /\ UNCHANGED evaluation
  \/ ncalls < MaxCalls /\ HandleDelete /\ UNCHANGED evaluation
  \/ \E i \in DOMAIN inflight, outcome \in DeleteOutcomes :
       HandleDeleteSettles(i, outcome) /\ UNCHANGED evaluation
  \/ /\ ncalls < MaxCalls
     /\ ErrorRendered
     /\ Refetch
     /\ ViewKeeps
     /\ UNCHANGED evaluation
  \/ \E i \in DOMAIN inflight, outcome \in Outcomes, partial \in Partials :
       RefetchSettles(i, outcome, partial) /\ ViewKeeps /\ UNCHANGED evaluation
  \/ \E outcome \in Outcomes, partial \in Partials :
       QueryResponse(outcome, partial) /\ ViewKeeps /\ UNCHANGED evaluation

ViewSpec == Init /\ [][ViewNext]_vars

\* ------------------------------------------------------------------------
\* DeviceTableView rendered over a useDevices whose results are given (the
\* hook mocked, as in the view's tests), re-rendered after every step
\* ------------------------------------------------------------------------

\* DeviceTableView with the error branch tested before the loading branch.
ScreenErrorFirst(isLoading, err, devs) ==
  IF err # NoError /\ Len(devs) = 0 THEN "ErrorState"
  ELSE IF isLoading /\ Len(devs) = 0 THEN "LoadingState"
  ELSE "DeviceTable"

\* What DeviceTableView returns: its two early returns, then the page with
\* the table.
Screen(isLoading, err, devs) ==
  IF isLoading /\ Len(devs) = 0 THEN "LoadingState"
  ELSE IF err # NoError /\ Len(devs) = 0 THEN "ErrorState"
  ELSE "DeviceTable"

\* The render of the state the step leads to.
Rendered ==
  verdict' = [fn |-> "DeviceTableView", value |-> FALSE,
              text |-> <<Screen(loading', error', devices')>>]

\* mockUseDevices.mockReturnValue({...}): loading, error and devices given.
HookResults ==
  [loading : BOOLEAN, error : {NoError, NetworkError, GraphQLError},
   data : {<<>>, <<Device1>>, <<Device2>>, <<Device1, Device2>>}]

RenderInit ==
  /\ \E h \in HookResults :
       /\ loading = h.loading
       /\ fetching = h.loading
       /\ error = h.error
       /\ data = h.data
  /\ selectedDeviceId = Null
  /\ searchTerm = <<>>
  /\ creating = FALSE
  /\ updating = FALSE
  /\ deleting = FALSE
  /\ mutationId = [createDevice |-> 0, updateDevice |-> 0, deleteDevice |-> 0]
  /\ errorPolicy \in ErrorPolicies
  /\ server = <<Device1, Device2>>
  /\ inflight = <<>>
  /\ ncalls = 0
  /\ last = NoCall
  /\ showForm = FALSE
  /\ editingDevice = <<>>
  /\ deviceToDelete = Null
  /\ errors = {}
  /\ subject = NoSubject
  /\ verdict = NoVerdict

\* The first render.
FirstRender ==
  /\ verdict = NoVerdict
  /\ UNCHANGED <<vm, view, subject>>
  /\ Rendered

\* <ErrorState error={error} onRetry={refetch} />: the Retry button
Retry ==
  /\ verdict.text = <<"ErrorState">>
  /\ Refetch
  /\ UNCHANGED <<view, subject>>
  /\ Rendered

RenderNext ==
  \/ FirstRender
  \/ ncalls < MaxCalls /\ Retry
  \/ \E i \in DOMAIN inflight, outcome \in Outcomes, partial \in Partials :
       /\ verdict # NoVerdict
       /\ RefetchSettles(i, outcome, partial)
       /\ UNCHANGED <<view, subject>>
       /\ Rendered
  \/ \E outcome \in Outcomes, partial \in Partials :
       /\ verdict # NoVerdict
       /\ QueryResponse(outcome, partial)
       /\ UNCHANGED <<view, subject>>
       /\ Rendered

RenderSpec == RenderInit /\ [][RenderNext]_vars

\* ------------------------------------------------------------------------
\* DeviceTable inside DeviceTableView: clicks on a row and on its buttons
\* ------------------------------------------------------------------------

\* Buttons none of which stops the click.
StopPropagationNone(button) == FALSE

\* The buttons of a row whose onClick calls e.stopPropagation(), so that the
\* click does not go on to the onClick of the <tr>.
StopPropagation(button) == button \in {"Edit", "Delete"}

\* selectedDeviceId after a click on a button of the row of deviceId: the
\* row's onClick={() => onSelectDevice(device.id)} runs when the click
\* reaches the row.
SelectionAfterClick(button, deviceId) ==
  IF StopPropagation(button) THEN selectedDeviceId ELSE deviceId

\* What useDevices holds besides selectedDeviceId.
hookRest ==
  <<searchTerm, data, loading, error, creating, updating, deleting,
    mutationId, errorPolicy, server, fetching, inflight, ncalls, last>>

\* A click on a row, outside its buttons: onSelectDevice={selectDevice}
ClickRow(device) ==
  /\ MainRendered
  /\ SelectDevice(device.id)
  /\ ViewKeeps

\* A click on the Edit button of a row: onEditDevice={handleEdit}
ClickEdit(device) ==
  /\ MainRendered
  /\ editingDevice' = <<device>>
  /\ showForm' = TRUE
  /\ selectedDeviceId' = SelectionAfterClick("Edit", device.id)
  /\ UNCHANGED <<hookRest, deviceToDelete>>
  /\ errors' = ErrorsKept(errors)

\* A click on the Delete button of a row: onDeleteDevice={setDeviceToDelete}
ClickDelete(device) ==
  /\ MainRendered
  /\ deviceToDelete' = device.id
  /\ selectedDeviceId' = SelectionAfterClick("Delete", device.id)
  /\ UNCHANGED <<hookRest, showForm, editingDevice>>
  /\ errors' = ErrorsKept(errors)

\* The names of the object useDevices returns.
HookInterface ==
  {"devices", "selectedDevice", "loading", "creating", "updating",
   "deleting", "error", "searchTerm", "setSearchTerm", "filteredDevices",
   "selectDevice", "createDevice", "updateDevice", "deleteDevice", "refetch"}

\* The name DeviceTableView reads from useDevices() for the onChange of
\* SearchBar.
SearchBarOnChange == "setSearchInput"

\* The user changes the text of the search box to term: SearchBar calls its
\* onChange with the text. The handler is the property the view read from
\* the hook's result, undefined when the hook returns no such property; the
\* call of an undefined handler throws and no state is set.
TypeSearch(term) ==
  /\ MainRendered
  /\ subject' = [subject EXCEPT !.s = term]
  /\ verdict' = [fn |-> "SearchBar.onChange",
                 value |-> SearchBarOnChange \in HookInterface,
                 text |-> <<>>]
  /\ IF SearchBarOnChange = "setSearchTerm"
       THEN SetSearchTerm(term)
       ELSE UNCHANGED vm
  /\ ViewKeeps

TableNext ==
  \/ \E term \in SearchTerms : TypeSearch(term)
  \/ \E device \in Rows : ClickRow(device) /\ UNCHANGED evaluation
  \/ \E device \in Rows : ClickEdit(device) /\ UNCHANGED evaluation
  \/ \E device \in Rows : ClickDelete(device) /\ UNCHANGED evaluation
  \/ HandleCreate /\ UNCHANGED evaluation
  \/ FormCancel /\ UNCHANGED evaluation
  \/ ModalCancel /\ UNCHANGED evaluation
  \/ \E outcome \in Outcomes, partial \in Partials :
       QueryResponse(outcome, partial) /\ ViewKeeps /\ UNCHANGED evaluation

TableSpec == Init /\ [][TableNext]_vars

\* ------------------------------------------------------------------------
\* Searching: setSearchTerm called with terms that hold whitespace, the
\* term passed kept in subject.s
\* ------------------------------------------------------------------------

WhitespaceTerms == {<<" ">>, <<"\t">>, <<" ", "s", "E", "n">>}

\* setSearchTerm(term) as a caller makes it.
CallSetSearchTerm(term) ==
  /\ SetSearchTerm(term)
  /\ subject' = [subject EXCEPT !.s = term]
  /\ UNCHANGED <<view, verdict>>

SearchNext ==
  \/ \E term \in SearchTerms \cup WhitespaceTerms : CallSetSearchTerm(term)
  \/ \E deviceId \in SelectIds : SelectDevice(deviceId) /\ UNCHANGED outside
  \/ \E outcome \in Outcomes, partial \in Partials :
       QueryResponse(outcome, partial) /\ UNCHANGED outside

SearchSpec == Init /\ [][SearchNext]_vars

\* ------------------------------------------------------------------------
\* DeviceModel functions applied to arguments drawn from bounded sets
\* ------------------------------------------------------------------------

\* n copies of the character c.
Repeat(c, n) == [i \in 1..n |-> c]

Pads == {<<>>, <<" ">>, <<"\t", " ">>}

\* Names: runs of letters of every length up to MaxNameLen, bare or padded
\* with whitespace, and names with whitespace inside.
Names ==
  {l \o Repeat("a", n) \o r : n \in 0..MaxNameLen, l \in Pads, r \in Pads}
  \cup {<<"a"," ","b">>, <<" ","a"," "," ","b","\n">>, <<"a","\t">>,
        NameOk, NameShort, NamePadded}

\* Serial numbers: every combination of segment lengths up to MaxPartLen,
\* and strings that break the pattern in other ways.
Serials ==
  {Repeat("A", a) \o <<"-">> \o Repeat("0", b) \o <<"-">> \o Repeat(x, c) :
     a \in 0..MaxPartLen, b \in 0..MaxPartLen, c \in 0..MaxPartLen,
     x \in {"Z", "9"}}
  \cup {SerialOk, SerialBad,
        <<"G","W","-","0","0","1","-","M","A","I","N">>,
        <<"i","n","v","a","l","i","d">>,
        <<"T","S","-","1","-","A">>,
        <<"t","s","-","0","0","1","-","a">>,
        <<"T","S","-","0","0","1","-","a">>,
        <<"T","s","-","0","0","1","-","A">>,
        <<"T","1","-","0","0","1","-","A">>,
        <<"T","S","-","0","A","1","-","A">>,
        <<" ","T","S","-","0","0","1","-","A">>,
        <<"T","S","-","0","0","1","-","A"," ">>,
        <<"T","S","-","0","0","1","-","A","\n">>,
        <<"x","T","S","-","0","0","1","-","A">>,
        <<"T","S","-","0","0","1","-","A","-","B">>,
        <<"T","S","_","0","0","1","_","A">>,
        <<"T","S","-","0","0","1","-","A","b">>}

\* Search terms.
Terms ==
  {<<>>, <<"s","E","n">>, <<"l","a","b">>, <<"L","A","B">>,
   <<"t","s","-","0","0","1">>, <<"g","a","t","e">>, <<"W","A","Y">>,
   <<"x","y","z">>, <<"t","e","m","p"," ","1">>, <<"1"," ","t","e","m","p">>,
   <<"l","a","b"," ","1">>, <<"n","u","l","l">>, <<"m","p"," ">>,
   <<"T","E","M","P">>, <<"a","c","t">>}

\* A device without location (the empty string) and a device whose name and
\* location together, but no single field, hold the words of a term.
Device3 ==
  [id |-> <<"3">>, name |-> <<"H","u","b">>,
   serialNumber |-> <<"A","C","-","0","0","2","-","B">>,
   type |-> <<"A","C","T","U","A","T","O","R">>,
   firmwareVersion |-> FirmwareOk, location |-> <<>>]

Device4 ==
  [id |-> <<"4">>, name |-> <<"L","a","b">>,
   serialNumber |-> <<"T","S","-","0","0","4","-","D">>,
   type |-> Sensor,
   firmwareVersion |-> FirmwareOk, location |-> <<"1">>]

MatchDevices == {Device1, Device2, Device3, Device4}

\* Firmware versions: every combination of digit-run lengths up to
\* MaxPartLen, and strings that break the pattern in other ways.
Firmwares ==
  {Repeat("1", a) \o <<".">> \o Repeat("0", b) \o <<".">> \o Repeat("7", c) :
     a \in 0..MaxPartLen, b \in 0..MaxPartLen, c \in 0..MaxPartLen}
  \cup {FirmwareOk, FirmwareBad, <<>>,
        <<"1", ".", "0">>,
        <<"1", ".", "0", ".", "0", ".", "0">>,
        <<"v", "1", ".", "0", ".", "0">>,
        <<"2", ".", "1", "0", ".", "5">>,
        <<"1", "0", ".", "0", ".", "0">>,
        <<"1", "-", "0", "-", "0">>,
        <<"1", "0", "0">>,
        <<"1", ".", "a", ".", "0">>,
        <<" ", "1", ".", "0", ".", "0">>,
        <<"1", ".", "0", ".", "0", " ">>,
        <<"1", ".", "0", ".", "0", "\n">>,
        <<"1", ".", "0", ".", "0", "-", "r", "c">>,
        <<"1", ".", "0", ".", "0", ".">>,
        <<"1", ".", "0", " ", ".", "0">>}

\* Milliseconds between lastSeenAt and now: every mix of days, hours,
\* minutes and milliseconds around the unit boundaries, and lastSeenAt
\* later than now.
Elapsed ==
  {days * 86400000 + hours * 3600000 + minutes * 60000 + ms :
     days \in 0..MaxDays, hours \in {0, 1, 2, 23},
     minutes \in {0, 1, 2, 30, 59}, ms \in {0, 1, 59999}}
  \cup {-1, -60000, -86400001}

Subjects ==
  {[s |-> x, d |-> device, seen |-> FALSE, elapsed |-> 0] :
     x \in Names \cup Serials \cup Firmwares \cup Terms,
     device \in MatchDevices}
  \cup {[s |-> <<>>, d |-> Device1, seen |-> b, elapsed |-> e] :
          b \in BOOLEAN, e \in Elapsed}

FunctionInit ==
  /\ HookInit
  /\ subject \in Subjects
  /\ verdict = NoVerdict

\* DeviceModel.isValidName(subject.s)
ApplyIsValidName ==
  /\ verdict' = [fn |-> "isValidName", value |-> isValidName(subject.s),
                 text |-> <<>>]
  /\ UNCHANGED <<vm, view, subject>>

\* DeviceModel.isValidSerialNumber(subject.s)
ApplyIsValidSerialNumber ==
  /\ verdict' = [fn |-> "isValidSerialNumber",
                 value |-> isValidSerialNumber(subject.s), text |-> <<>>]
  /\ UNCHANGED <<vm, view, subject>>

\* new DeviceModel(subject.d).matchesSearch(subject.s)
ApplyMatchesSearch ==
  /\ verdict' = [fn |-> "matchesSearch",
                 value |-> matchesSearch(subject.d, subject.s),
                 text |-> <<>>]
  /\ UNCHANGED <<vm, view, subject>>

\* DeviceModel.isValidFirmwareVersion(subject.s)
ApplyIsValidFirmwareVersion ==
  /\ verdict' = [fn |-> "isValidFirmwareVersion",
                 value |-> isValidFirmwareVersion(subject.s), text |-> <<>>]
  /\ UNCHANGED <<vm, view, subject>>

\* new DeviceModel({...subject.d, lastSeenAt}).lastSeenFormatted, read
\* subject.elapsed milliseconds after lastSeenAt.
ApplyLastSeenFormatted ==
  /\ verdict' = [fn |-> "lastSeenFormatted", value |-> subject.seen,
                 text |-> lastSeenFormatted(subject.seen, subject.elapsed)]
  /\ UNCHANGED <<vm, view, subject>>

FunctionNext ==
  \/ ApplyIsValidName
  \/ ApplyIsValidSerialNumber
  \/ ApplyMatchesSearch
  \/ ApplyIsValidFirmwareVersion
  \/ ApplyLastSeenFormatted

FunctionSpec == FunctionInit /\ [][FunctionNext]_vars

\* ------------------------------------------------------------------------
\* Properties
\* ------------------------------------------------------------------------

\* The step is a call of createDevice, updateDevice, deleteDevice or refetch.
CallMade == ncalls' = ncalls + 1

\* The call made by the step: settled at once (rejected by validation) or
\* appended to the pending calls.
NewCall ==
  IF last'.cid = ncalls' THEN last' ELSE inflight'[Len(inflight')]

\* The step leaves the pending calls as they were.
SamePending ==
  /\ Len(inflight') = Len(inflight)
  /\ \A j \in DOMAIN inflight : inflight'[j].cid = inflight[j].cid

\* The call made by the step was rejected before reaching the collaborator.
RejectedByValidation ==
  /\ last'.cid = ncalls'
  /\ last'.result = "rejected"
  /\ last'.error.kind = "validation"
  /\ SamePending

\* The call made by the step handed its request to the collaborator.
RequestIssued ==
  /\ Len(inflight') = Len(inflight) + 1
  /\ inflight'[Len(inflight')].cid = ncalls'
  /\ last'.cid = last.cid

\* The step is the completion of the i-th pending call, the collaborator
\* having answered with outcome.
SettlesNow(i, op, outcome) ==
  /\ inflight[i].op = op
  /\ last'.cid = inflight[i].cid
  /\ last'.outcome = outcome

\* A failed request: transport failure or remote-rejected request.
Failures == {"network", "graphql"}

\* name fails isValidName, or serialNumber fails isValidSerialNumber, or
\* firmwareVersion fails isValidFirmwareVersion.
InvalidCreateInput(input) ==
  \/ ~isValidName(input.name)
  \/ ~isValidSerialNumber(input.serialNumber)
  \/ ~isValidFirmwareVersion(input.firmwareVersion)

\* C1: a createDevice call whose name, serialNumber or firmwareVersion is
\* invalid rejects with a validation error, hands no request to the
\* collaborator (nothing joins the in-flight calls), leaves creating as it
\* was, and changes neither selectedDeviceId nor searchTerm.
C1_InvalidCreateNeverReachesCollaborator ==
  [][(/\ CallMade
      /\ NewCall.op = "createDevice"
      /\ InvalidCreateInput(NewCall.input)) =>
        /\ RejectedByValidation
        /\ UNCHANGED <<creating, mutationId, selectedDeviceId, searchTerm>>
    ]_vars

\* C1 witness: a create call was rejected by validation while a device was
\* selected and a search term set, and creating is false.
C1_Witness ==
  /\ last.op = "createDevice"
  /\ last.error.kind = "validation"
  /\ InvalidCreateInput(last.input)
  /\ ~creating
  /\ inflight = <<>>
  /\ selectedDeviceId = <<"1">>
  /\ searchTerm # <<>>

\* A field of an update input is present and fails its validator.
InvalidUpdateInput(input) ==
  \/ "name" \in DOMAIN input /\ ~isValidName(input.name)
  \/ "firmwareVersion" \in DOMAIN input
       /\ ~isValidFirmwareVersion(input.firmwareVersion)

\* C2: updateDevice rejects with a validation error, and issues no request,
\* whenever a name or firmwareVersion present in the input fails its
\* validator; with both omitted the request is issued.
C2_UpdateValidatesPresentFields ==
  [][(CallMade /\ NewCall.op = "updateDevice") =>
        /\ InvalidUpdateInput(NewCall.input) =>
             RejectedByValidation /\ UNCHANGED <<updating, mutationId>>
        /\ ("name" \notin DOMAIN NewCall.input
              /\ "firmwareVersion" \notin DOMAIN NewCall.input) =>
             RequestIssued
    ]_vars

\* The input of a create or update request carries only valid values in the
\* name and firmwareVersion fields it has.
TouchedFieldsValid(input) ==
  /\ "name" \in DOMAIN input => isValidName(input.name)
  /\ "firmwareVersion" \in DOMAIN input =>
       isValidFirmwareVersion(input.firmwareVersion)

\* C3: every create or update request delivered to the collaborator (pending,
\* or the one answered last) carries a valid name and a valid firmwareVersion
\* whenever it carries these fields at all.
C3_DeliveredFieldsRevalidated ==
  /\ \A i \in DOMAIN inflight :
       inflight[i].op \in {"createDevice", "updateDevice"} =>
         TouchedFieldsValid(inflight[i].input)
  /\ (last.op \in {"createDevice", "updateDevice"} /\ last.outcome # "none") =>
       TouchedFieldsValid(last.input)

\* C4: when deleteDevice(id) was called while selectedDeviceId was id and
\* the collaborator's delete succeeds, the completion of the call leaves
\* selectedDeviceId null and selectedDevice absent.
C4_DeleteOfSelectedClearsSelection ==
  [][\A i \in DOMAIN inflight :
       (SettlesNow(i, "deleteDevice", "ok")
          /\ inflight[i].closure = inflight[i].input.id) =>
            /\ selectedDeviceId' = Null
            /\ selectedDevice' = <<>>
            /\ last'.result = "resolved"
    ]_vars

\* C4 witness: a delete of the device selected at the call succeeded and
\* nothing is selected.
C4_Witness ==
  /\ last.op = "deleteDevice"
  /\ last.outcome = "ok"
  /\ last.result = "resolved"
  /\ last.closure = last.input.id
  /\ selectedDeviceId = Null

\* C5: a deleteDevice call the collaborator fails (transport failure or
\* remote-rejected request) rejects with that error and leaves
\* selectedDeviceId as it was, under either error policy of the client.
C5_FailedDeleteKeepsSelection ==
  [][\A i \in DOMAIN inflight, outcome \in Failures :
       SettlesNow(i, "deleteDevice", outcome) =>
          /\ last'.result = "rejected"
          /\ last'.error = ErrorOf(outcome)
          /\ selectedDeviceId' = selectedDeviceId
    ]_vars

\* C6: a successful deleteDevice(id) clears selectedDeviceId exactly when
\* selectedDeviceId is id at the moment the delete completes.
C6_DeleteClearsCurrentSelectionOnly ==
  [][\A i \in DOMAIN inflight :
       SettlesNow(i, "deleteDevice", "ok") =>
          selectedDeviceId' =
            IF selectedDeviceId = inflight[i].input.id
              THEN Null
              ELSE selectedDeviceId
    ]_vars

\* C7: a create or update request that passed validation and that the
\* collaborator fails makes the call reject with that same error, and
\* selectedDeviceId and searchTerm are unchanged.
C7_FailedCreateUpdatePropagates ==
  [][\A i \in DOMAIN inflight, outcome \in Failures :
       (\/ SettlesNow(i, "createDevice", outcome)
        \/ SettlesNow(i, "updateDevice", outcome)) =>
          /\ last'.result = "rejected"
          /\ last'.error = ErrorOf(outcome)
          /\ UNCHANGED <<selectedDeviceId, searchTerm>>
    ]_vars

\* C8: refetch re-requests the list and leaves searchTerm and
\* selectedDeviceId unchanged whether it succeeds or fails, and a failed
\* re-request makes the refetch call reject with the error.
C8_RefetchFramesAndPropagates ==
  [][/\ (CallMade /\ NewCall.op = "refetch") =>
          /\ RequestIssued
          /\ UNCHANGED <<selectedDeviceId, searchTerm>>
     /\ \A i \in DOMAIN inflight, outcome \in Outcomes :
          SettlesNow(i, "refetch", outcome) =>
             /\ UNCHANGED <<selectedDeviceId, searchTerm>>
             /\ outcome = "ok" => last'.result = "resolved" /\ data' = server
             /\ outcome \in Failures =>
                  /\ last'.result = "rejected"
                  /\ last'.error = ErrorOf(outcome)
    ]_vars

\* The positions of the devices that match the term.
Matching(term, devs) == {j \in 1..Len(devs) : matchesSearch(devs[j], term)}

\* The k-th smallest element of a set of positions.
Kth(positions, k) ==
  CHOOSE j \in positions : Cardinality({m \in positions : m < j}) = k - 1

\* C9: filteredDevices is devices itself when searchTerm is empty, and
\* otherwise exactly the devices matching searchTerm, in their original
\* order; it is never longer than devices.
C9_FilteredDevicesIsMatchingSubsequence ==
  /\ searchTerm = <<>> => filteredDevices = devices
  /\ searchTerm # <<>> =>
       /\ Len(filteredDevices) = Cardinality(Matching(searchTerm, devices))
       /\ \A k \in 1..Len(filteredDevices) :
            filteredDevices[k] = devices[Kth(Matching(searchTerm, devices), k)]
  /\ Len(filteredDevices) <= Len(devices)

\* C9 witness: a non-empty term that keeps some devices and drops others,
\* with a matching device behind a dropped one.
C9_Witness ==
  /\ searchTerm # <<>>
  /\ Len(filteredDevices) = 2
  /\ Len(devices) = 3
  /\ filteredDevices[2] = devices[3]

\* C10: selectedDevice is the record of devices whose id is selectedDeviceId,
\* and is absent exactly when selectedDeviceId is null or no record of
\* devices has that id.
C10_SelectedDeviceIsRecordOfSelectedId ==
  LET holders == {i \in 1..Len(devices) : devices[i].id = selectedDeviceId}
  IN IF selectedDeviceId = Null \/ holders = {}
       THEN selectedDevice = <<>>
       ELSE /\ Len(selectedDevice) = 1
            /\ selectedDevice[1].id = selectedDeviceId
            /\ \E i \in holders : devices[i] = selectedDevice[1]

\* C10 witness: a device is selected that the current, non-empty list no
\* longer holds, and selectedDevice is absent.
C10_Witness ==
  /\ selectedDeviceId \in {<<"1">>, <<"2">>}
  /\ devices # <<>>
  /\ ~fetching
  /\ \A i \in 1..Len(devices) : devices[i].id # selectedDeviceId
  /\ selectedDevice = <<>>


\* The mutation kinds and their in-flight flags.
Kinds == {"createDevice", "updateDevice", "deleteDevice"}

Flag(op) ==
  IF op = "createDevice" THEN creating
  ELSE IF op = "updateDevice" THEN updating
  ELSE deleting

\* Some call of the kind awaits the collaborator's answer.
SomePending(op) == \E i \in DOMAIN inflight : inflight[i].op = op

\* The most recently issued call of the kind awaits the answer.
LatestPending(op) ==
  \E i \in DOMAIN inflight :
    inflight[i].op = op /\ inflight[i].mid = mutationId[op]

\* The call numbered c awaits the answer.
Pending(c) == \E i \in DOMAIN inflight : inflight[i].cid = c

\* C11 as stated: the in-flight flag of each mutation kind is true exactly
\* from the issue of a validated call until the collaborator has responded
\* to it, that is, exactly while a call of that kind is in flight.
C11_FlagTrueWhileInFlight ==
  \A op \in Kinds : Flag(op) <=> SomePending(op)

\* C11 amended: the in-flight flag of each mutation kind is true exactly
\* while the most recently issued validated call of that kind awaits the
\* collaborator's answer (false before any call, true once a validated call
\* is issued, false after the answer to the latest call whatever its
\* outcome); with every request eventually answered, every flag eventually
\* returns to false and every call in flight eventually settles.
C11_FlagFollowsLatestCall ==
  /\ [](\A op \in Kinds : Flag(op) <=> LatestPending(op))
  /\ \A op \in Kinds : Flag(op) ~> ~Flag(op)
  /\ \A c \in 1..(MaxConcurrent + 1) : Pending(c) ~> ~Pending(c)

\* C11 witness: the latest create call has been answered, an earlier one is
\* still in flight, and creating is false.
C11_Witness ==
  /\ ~creating
  /\ \E i \in DOMAIN inflight :
       /\ inflight[i].op = "createDevice"
       /\ inflight[i].mid < mutationId.createDevice
  /\ last.op = "createDevice"
  /\ last.outcome # "none"


\* The numbers of the calls whose request the collaborator holds.
Cids(calls) == {calls[j].cid : j \in DOMAIN calls}

\* The call passes the validation its operation performs.
PassesValidation(c) ==
  /\ c.op = "createDevice" => CreateValidation(c.input) = Null
  /\ c.op = "updateDevice" => UpdateValidation(c.input) = Null

\* C12: every create or update call that passes validation, and every
\* delete call, hands exactly one request to the collaborator at once,
\* whether or not a call of the same kind is already in flight; an answer,
\* failed or not, removes that one request and no step other than a call
\* issues a request (no retry); no call ever has two requests pending.
C12_OneRequestPerCall ==
  /\ [][(CallMade /\ NewCall.op \in Kinds /\ PassesValidation(NewCall)) =>
          /\ Len(inflight') = Len(inflight) + 1
          /\ Cids(inflight') = Cids(inflight) \cup {ncalls'}
       ]_vars
  /\ [][~CallMade =>
          /\ Cids(inflight') \subseteq Cids(inflight)
          /\ \A i \in DOMAIN inflight :
               last'.cid = inflight[i].cid =>
                 /\ Len(inflight') = Len(inflight) - 1
                 /\ inflight[i].cid \notin Cids(inflight')
       ]_vars
  /\ [](Cardinality(Cids(inflight)) = Len(inflight))

\* C12 witness: two create requests are pending together, the second
\* issued while the first was in flight.
C12_Witness ==
  /\ Len(inflight) = 2
  /\ inflight[1].op = "createDevice"
  /\ inflight[2].op = "createDevice"
  /\ inflight[1].cid # inflight[2].cid


\* The fields an update payload may hold.
UpdateFields == {"id", "name", "status", "firmwareVersion", "location"}

\* The update requests the collaborator holds or answered last.
UpdateRequests ==
  {inflight[i].input : i \in {j \in DOMAIN inflight :
                                inflight[j].op = "updateDevice"}}
  \cup (IF last.op = "updateDevice" /\ last.outcome # "none"
          THEN {last.input} ELSE {})

\* C13: no update request that reaches the collaborator from DeviceForm in
\* edit mode through updateDevice holds a serialNumber or a type field; its
\* payload holds only id, name, status, firmwareVersion and location.
C13_UpdatePayloadOmitsWriteOnceFields ==
  \A input \in UpdateRequests :
    /\ "serialNumber" \notin DOMAIN input
    /\ "type" \notin DOMAIN input
    /\ DOMAIN input \subseteq UpdateFields

\* C13 witness: an update request built from the edit form, for a device
\* that has a serial number and a type, was answered by the collaborator.
C13_Witness ==
  /\ last.op = "updateDevice"
  /\ last.outcome = "ok"
  /\ last.input.id = <<"1">>
  /\ DOMAIN last.input = UpdateFields


\* C14: when the createDevice or updateDevice call of a form submit
\* settles, the form is closed if the call resolved and stays open
\* (showForm unchanged, still true) if it rejected.
C14_FormClosesOnlyOnSuccess ==
  [][\A i \in DOMAIN inflight :
       (/\ inflight[i].op \in {"createDevice", "updateDevice"}
        /\ last'.cid = inflight[i].cid) =>
          /\ showForm
          /\ last'.result = "resolved" => ~showForm'
          /\ last'.result = "rejected" => showForm'
    ]_vars


InvalidFormData(formData, device) ==
  \/ ~isValidName(formData.name)
  \/ ~isValidFirmwareVersion(formData.firmwareVersion)
  \/ device = <<>> /\ ~isValidSerialNumber(formData.serialNumber)

\* C16: a submit of DeviceForm whose form data fails validation calls
\* neither onSubmit (no createDevice / updateDevice call is made, nothing
\* reaches the collaborator) nor onCancel (the form stays as it is), and
\* errors then holds the message of every failing field and of no other.
C16_InvalidSubmitReportsAllErrors ==
  [][\A formData \in FormDatas :
       (FormSubmit(formData) /\ InvalidFormData(formData, editingDevice)) =>
          /\ ncalls' = ncalls
          /\ SamePending
          /\ last'.cid = last.cid
          /\ UNCHANGED <<showForm, editingDevice>>
          /\ <<"name", NameFormMessage>> \in errors'
               <=> ~isValidName(formData.name)
          /\ <<"serialNumber", SerialFormMessage>> \in errors'
               <=> (/\ editingDevice = <<>>
                    /\ ~isValidSerialNumber(formData.serialNumber))
          /\ <<"firmwareVersion", FirmwareFormMessage>> \in errors'
               <=> ~isValidFirmwareVersion(formData.firmwareVersion)
          /\ Cardinality(errors') <= 3
    ]_vars

\* C16 witness: an edit form shows the name and the firmware version
\* errors of one submit, is still open, and no call was made.
C16_Witness ==
  /\ showForm
  /\ editingDevice # <<>>
  /\ errors = {<<"name", NameFormMessage>>,
               <<"firmwareVersion", FirmwareFormMessage>>}
  /\ ncalls = 0
  /\ inflight = <<>>


\* C17: the completion of a successful create, update or delete has the
\* full list re-requested and leaves searchTerm alone, and changes
\* selectedDeviceId only by the delete rule (to null when the deleted id is
\* the selected one); the answer to the list request makes devices the
\* server's list and changes neither selectedDeviceId nor searchTerm.
C17_SuccessRefreshesListOnly ==
  [][/\ \A i \in DOMAIN inflight :
          (/\ inflight[i].op \in Kinds
           /\ last'.cid = inflight[i].cid
           /\ last'.outcome = "ok") =>
             /\ fetching'
             /\ searchTerm' = searchTerm
             /\ selectedDeviceId' =
                  IF /\ inflight[i].op = "deleteDevice"
                     /\ selectedDeviceId = inflight[i].input.id
                    THEN Null
                    ELSE selectedDeviceId
     /\ (fetching /\ ~fetching' /\ error' = NoError) =>
          /\ data' = server
          /\ UNCHANGED <<selectedDeviceId, searchTerm>>
    ]_vars

\* With every list request eventually answered, a list re-requested after
\* a mutation is eventually answered, and then devices is the server's
\* list unless the answer was an error.
ListEventuallyRefreshed ==
  fetching ~> (~fetching /\ (data = server \/ error # NoError))


\* Two characters are the same letter, whatever their case.
SameLetter(c1, c2) ==
  \/ c1 = c2
  \/ \E k \in 1..26 : {c1, c2} = {Upper[k], Lower[k]}

\* The whole of t occurs in s as one run, case ignored.
OccursIn(t, s) ==
  \E off \in 0..(Len(s) - Len(t)) :
    \A k \in 1..Len(t) : SameLetter(s[off + k], t[k])

\* The record has a location.
HasLocation(d) == d.location # Null /\ d.location # <<>>

\* C18: matchesSearch(term) is true exactly when the whole term occurs,
\* case ignored and as one substring, in the name, the serialNumber, the
\* type or the location of the record; a record without location (null or
\* empty) matches through the other three fields only.
C18_MatchesSearchIsSubstringOfAField ==
  verdict.fn = "matchesSearch" =>
    /\ verdict.value =
         (\E f \in {"name", "serialNumber", "type", "location"} :
            /\ f = "location" => HasLocation(subject.d)
            /\ OccursIn(subject.s, subject.d[f]))
    /\ ~HasLocation(subject.d) =>
         verdict.value =
           (\/ OccursIn(subject.s, subject.d.type)
            \/ OccursIn(subject.s, subject.d.serialNumber)
            \/ OccursIn(subject.s, subject.d.name))

\* C18 witness: an upper-case term found in the location only matched.
C18_Witness ==
  /\ verdict.fn = "matchesSearch"
  /\ verdict.value
  /\ subject.s = <<"L","A","B">>
  /\ subject.d = Device1

\* The length of s between its first and its last non-whitespace character.
TrimmedLength(s) ==
  LET solid == {i \in 1..Len(s) : s[i] \notin Whitespace}
  IN IF solid = {} THEN 0
     ELSE (CHOOSE i \in solid : \A j \in solid : j <= i)
          - (CHOOSE i \in solid : \A j \in solid : i <= j) + 1

\* C19: isValidName(s) is a boolean for every s, true exactly when the
\* length of s without its leading and trailing whitespace is between 3
\* and 50 inclusive.
C19_IsValidNameIsTrimmedLengthInRange ==
  verdict.fn = "isValidName" =>
    /\ verdict.value \in BOOLEAN
    /\ verdict.value =
         (3 <= TrimmedLength(subject.s) /\ TrimmedLength(subject.s) <= 50)

\* C19 witness: a name of 50 letters with whitespace around it was
\* accepted.
C19_Witness ==
  /\ verdict.fn = "isValidName"
  /\ verdict.value
  /\ Len(subject.s) > 50
  /\ TrimmedLength(subject.s) = 50

\* The positions of the hyphens of s.
Hyphens(s) == {i \in 1..Len(s) : s[i] = "-"}

\* s is letters-hyphen-digits-hyphen-letters or digits, with nothing else.
SerialShape(s) ==
  /\ Cardinality(Hyphens(s)) = 2
  /\ LET p1 == CHOOSE i \in Hyphens(s) : \A j \in Hyphens(s) : i <= j
         p2 == CHOOSE i \in Hyphens(s) : \A j \in Hyphens(s) : j <= i
     IN /\ p1 - 1 \in 2..4
        /\ p2 - p1 - 1 \in 3..4
        /\ Len(s) - p2 \in 1..4
        /\ \A i \in 1..(p1 - 1) : s[i] \in UpperSet
        /\ \A i \in (p1 + 1)..(p2 - 1) : s[i] \in Digits
        /\ \A i \in (p2 + 1)..Len(s) : s[i] \in UpperSet \cup Digits

\* C20: isValidSerialNumber(s) is true exactly when s is, with nothing
\* before or after, 2 to 4 uppercase letters, a hyphen, 3 to 4 digits, a
\* hyphen, and 1 to 4 uppercase letters or digits.
C20_IsValidSerialNumberIsShape ==
  verdict.fn = "isValidSerialNumber" =>
    verdict.value = SerialShape(subject.s)

\* C20 witness: "GW-001-MAIN" was accepted.
C20_Witness ==
  /\ verdict.fn = "isValidSerialNumber"
  /\ verdict.value
  /\ subject.s = <<"G","W","-","0","0","1","-","M","A","I","N">>


\* The positions of the dots of s.
Dots(s) == {i \in 1..Len(s) : s[i] = "."}

\* s is three non-empty runs of digits with a dot between them.
VersionShape(s) ==
  /\ Cardinality(Dots(s)) = 2
  /\ \A i \in (1..Len(s)) \ Dots(s) : s[i] \in Digits
  /\ \A i \in Dots(s) : 1 < i /\ i < Len(s) /\ i + 1 \notin Dots(s)

\* C21: isValidFirmwareVersion(s) is true exactly when s is three non-empty
\* digit runs separated by two dots, with nothing before or after.
C21_IsValidFirmwareVersionIsShape ==
  verdict.fn = "isValidFirmwareVersion" =>
    verdict.value = VersionShape(subject.s)

\* C21 witness: "2.10.5" was accepted.
C21_Witness ==
  /\ verdict.fn = "isValidFirmwareVersion"
  /\ verdict.value
  /\ subject.s = <<"2", ".", "1", "0", ".", "5">>

RECURSIVE DecimalValue(_)
\* The number a run of decimal digits denotes.
DecimalValue(digits) ==
  IF digits = <<>> THEN 0
  ELSE 10 * DecimalValue(SubSeq(digits, 1, Len(digits) - 1))
       + (CHOOSE k \in 0..9 : DigitChars[k + 1] = digits[Len(digits)])

\* text is the decimal number n, a space, the unit, an s exactly when n is
\* not 1, and " ago".
SaysAgo(text, n, unit) ==
  \E k \in 1..Len(text) :
    /\ \A i \in 1..k : text[i] \in Digits
    /\ (k = 1 \/ text[1] # "0")
    /\ DecimalValue(SubSeq(text, 1, k)) = n
    /\ SubSeq(text, k + 1, Len(text)) =
         <<" ">> \o unit \o (IF n = 1 THEN <<>> ELSE <<"s">>)
           \o <<" ", "a", "g", "o">>

\* C22: lastSeenFormatted is "Never" without lastSeenAt; with d the elapsed
\* milliseconds it is "Just now" when d < 60000, floor(d/60000) minutes
\* when d < 3600000, floor(d/3600000) hours when d < 86400000, and
\* floor(d/86400000) days otherwise, the unit singular exactly for 1.
C22_LastSeenFormattedUsesDirectFloors ==
  verdict.fn = "lastSeenFormatted" =>
    LET d == subject.elapsed
    IN IF ~subject.seen THEN verdict.text = <<"N", "e", "v", "e", "r">>
       ELSE IF d < 60000
         THEN verdict.text = <<"J", "u", "s", "t", " ", "n", "o", "w">>
       ELSE IF d < 3600000
         THEN SaysAgo(verdict.text, d \div 60000,
                      <<"m", "i", "n", "u", "t", "e">>)
       ELSE IF d < 86400000
         THEN SaysAgo(verdict.text, d \div 3600000, <<"h", "o", "u", "r">>)
       ELSE SaysAgo(verdict.text, d \div 86400000, <<"d", "a", "y">>)

\* C22 witness: one millisecond short of two hours read "1 hour ago".
C22_Witness ==
  /\ verdict.fn = "lastSeenFormatted"
  /\ subject.seen
  /\ subject.elapsed = 7199999
  /\ verdict.text = <<"1", " ", "h", "o", "u", "r", " ", "a", "g", "o">>


\* The call recorded in last was rejected by the validation of op.
LastRejected(op) ==
  /\ last.op = op
  /\ last.result = "rejected"
  /\ last.error.kind = "validation"

WhitespaceOnly(s) == s # <<>> /\ \A i \in 1..Len(s) : s[i] \in Whitespace

\* The record has the run of characters t in one of its fields.
Contains(d, t) ==
  \E f \in {"name", "serialNumber", "type", "location"} :
    /\ f = "location" => HasLocation(d)
    /\ \E off \in 0..(Len(d[f]) - Len(t)) :
         SubSeq(d[f], off + 1, off + Len(t)) = t

\* C24: searchTerm is the term last passed to setSearchTerm, character for
\* character; a call of setSearchTerm changes neither selectedDeviceId nor
\* the device list, and a call with the term already stored changes
\* nothing; a non-empty whitespace-only term filters the list down to the
\* records that contain that whitespace.
C24_SearchTermStoredVerbatim ==
  /\ [](searchTerm = subject.s)
  /\ [][subject' # subject =>
          /\ selectedDeviceId' = selectedDeviceId
          /\ devices' = devices
          /\ data' = data]_vars
  /\ [][subject' = subject => searchTerm' = searchTerm]_vars
  /\ [](WhitespaceOnly(searchTerm) =>
          /\ \A i \in DOMAIN filteredDevices :
               Contains(filteredDevices[i], searchTerm)
          /\ \A i \in DOMAIN devices :
               Contains(devices[i], searchTerm) =>
                 \E j \in DOMAIN filteredDevices :
                   filteredDevices[j] = devices[i])

\* C24 witness: with both devices loaded, the term " " is stored and the
\* filtered list holds only the device whose name has a space.
C24_Witness ==
  /\ searchTerm = <<" ">>
  /\ subject.s = <<" ">>
  /\ Len(devices) = 2
  /\ filteredDevices = <<Device1>>


\* The step makes a call of deleteDevice.
DeleteCalled == CallMade /\ NewCall.op = "deleteDevice"

\* The step is the completion of a call of deleteDevice.
DeleteSettled == last'.cid # last.cid /\ last'.op = "deleteDevice"

C26_ScreenFollowsLoadingErrorDevices ==
  /\ [](verdict.fn = "DeviceTableView" =>
          LET empty == devices = <<>>
              shown == verdict.text[1]
          IN /\ shown = "LoadingState" <=> (loading /\ empty)
             /\ shown = "ErrorState" <=>
                  (~(loading /\ empty) /\ error # NoError /\ empty)
             /\ shown = "DeviceTable" <=>
                  ~(loading /\ empty) /\ ~(error # NoError /\ empty)
             /\ (loading /\ error # NoError /\ empty) =>
                  shown = "LoadingState"
             /\ (error # NoError /\ ~empty) => shown = "DeviceTable")
  /\ [][CallMade =>
          /\ verdict.text = <<"ErrorState">>
          /\ NewCall.op = "refetch"]_vars

\* C26 witness: loading and an error together, no devices, and the loading
\* state shown.
C26_Witness ==
  /\ verdict.fn = "DeviceTableView"
  /\ loading
  /\ error # NoError
  /\ devices = <<>>
  /\ verdict.text = <<"LoadingState">>


\* C27: a step that opens the edit form or the delete confirmation leaves
\* selectedDeviceId as it was, and selectedDeviceId changes only to the id
\* of a row of the table, by a step that opens neither.
C27_ButtonsLeaveSelectionAlone ==
  /\ [][(editingDevice' # editingDevice \/ (showForm' /\ ~showForm)
          \/ (deviceToDelete' # deviceToDelete /\ Truthy(deviceToDelete')))
        => selectedDeviceId' = selectedDeviceId]_vars
  /\ [][selectedDeviceId' # selectedDeviceId =>
          /\ \E device \in Rows : selectedDeviceId' = device.id
          /\ UNCHANGED <<showForm, editingDevice, deviceToDelete>>]_vars

\* C27 witness: with the first row selected, the edit form is open on the
\* second row and the delete confirmation on the second row.
C27_Witness ==
  /\ selectedDeviceId = <<"1">>
  /\ editingDevice = <<Device2>>
  /\ showForm
  /\ deviceToDelete = <<"2">>


\* C28: every createDevice call made from the form carries a name, a serial
\* number and a firmware version that pass the three validators, every
\* updateDevice call made from the form a name and a firmware version that
\* pass theirs; no such call is rejected by the view model's validation, so
\* a rejected create or update was rejected by the collaborator.
C28_FormPayloadPassesValidation ==
  /\ [][(CallMade /\ NewCall.op = "createDevice") =>
          /\ isValidName(NewCall.input.name)
          /\ isValidSerialNumber(NewCall.input.serialNumber)
          /\ isValidFirmwareVersion(NewCall.input.firmwareVersion)
          /\ RequestIssued]_vars
  /\ [][(CallMade /\ NewCall.op = "updateDevice") =>
          /\ DOMAIN NewCall.input =
               {"id", "name", "status", "firmwareVersion", "location"}
          /\ isValidName(NewCall.input.name)
          /\ isValidFirmwareVersion(NewCall.input.firmwareVersion)
          /\ RequestIssued]_vars
  /\ []((last.op \in {"createDevice", "updateDevice"}
         /\ last.result = "rejected") =>
          last.error.kind \in {"network", "graphql"})

\* C28 witness: an update made from the form passed the view model's
\* validation and was rejected by the collaborator.
C28_Witness ==
  /\ last.op = "updateDevice"
  /\ last.result = "rejected"
  /\ last.error.kind = "network"
  /\ last.input.name = NameOk


C30_SearchInputReachesViewModel ==
  verdict.fn = "SearchBar.onChange" =>
    /\ verdict.value
    /\ searchTerm = subject.s
    /\ Rows = {devices[j] : j \in {k \in DOMAIN devices :
                 subject.s = <<>> \/ matchesSearch(devices[k], subject.s)}}

====
